---- MODULE Spec2Model ----
(***************************************************************************)
(* Model of packages/duckdb-server-rust/src/cache.rs: the key deriver      *)
(* get_key and the memoizing retriever retrieve, run by concurrent tasks   *)
(* over one tokio::sync::Mutex<lru::LruCache<String, Vec<u8>>>.            *)
(*                                                                         *)
(* Strings are sequences of one-character strings.  The SHA-256 digest is  *)
(* modelled as an injective tagging of the absorbed byte string (no        *)
(* collisions), its 64-digit hex rendering as one element of the key.      *)
(* The cache is a sequence of entries, most recently used first, as in the *)
(* lru crate.                                                              *)
(***************************************************************************)
EXTENDS Naturals, Sequences, FiniteSets

\* ------------------------------------------------------------- bounds
NumTasks == 2
MaxCalls == 4
Capacity == 2
LiveCalls == 2

Tasks == 1..NumTasks
Sqls == {<<"s">>, <<"s", "x">>}
Commands == {<<"x", "y">>, <<"y">>}
Bytes == {"B1", "B2"}
Errors == {"E1", "E2"}

\* ------------------------------------------------------------- values
NoTask == NumTasks + 1
None == <<"None", "-">>
Some(v) == <<"Some", v>>
Ok(v) == <<"Ok", v>>
Err(e) == <<"Err", e>>
NoKey == <<<<"none", <<>>>>, ".">>

VARIABLES
    cache,      \* the LruCache: sequence of [k, v], most recently used first
    locked,     \* the Mutex is locked
    guard,      \* guard[t]: task t holds a MutexGuard
    pc,         \* where each task stands in retrieve
    sql, command, persist,   \* the arguments of the task's current call
    key,        \* the local `key`
    cached,     \* the Option returned by get(&key)
    fres,       \* the output of f().await
    result,     \* the local `result`
    ret,        \* what the call returned
    traced,     \* trace events the current call has emitted
    calls,      \* retrieve calls made so far
    promised,   \* history: what earlier persisted retrieves of the key returned
    onEmpty,    \* history: the store was empty when the call was made
    lastPut,    \* history: the task whose put was the last write to the store
    used        \* history: keys in order of their last store access, latest first

vars == <<cache, locked, guard, pc, sql, command, persist, key, cached, fres,
          result, ret, traced, calls, promised, onEmpty, lastPut, used>>

\* ------------------------------------------------------------ get_key
HasherNew == <<>>
HasherUpdate(h, data) == h \o data
HasherFinalize(h) == <<"sha256", h>>

\* Variant of get_key that renders the digest alone, without the suffix.
get_key_NoSuffix(s, c) ==
    LET h0 == HasherNew
        h1 == HasherUpdate(h0, s)
        h2 == HasherUpdate(h1, c)
    IN  <<HasherFinalize(h2)>>

get_key(s, c) ==
    LET h0 == HasherNew
        h1 == HasherUpdate(h0, s)
        h2 == HasherUpdate(h1, c)
    IN  <<HasherFinalize(h2)>> \o <<".">> \o c

\* ------------------------------------------------------- lru::LruCache
Keys(c) == {c[i].k : i \in 1..Len(c)}
IndexOf(c, k) == CHOOSE i \in 1..Len(c) : c[i].k = k
Without(c, k) == SelectSeq(c, LAMBDA e : e.k # k)
Peek(c, k) == IF k \in Keys(c) THEN Some(c[IndexOf(c, k)].v) ELSE None

\* Variant of get that takes the entry out of the cache.
LruGetCache_Pop(c, k) == Without(c, k)

\* Variant of get that looks the entry up without refreshing its recency.
LruGetCache_NoPromote(c, k) == c

\* get(&k): the value if present; a hit moves the entry to the front.
LruGetValue(c, k) == Peek(c, k)
LruGetCache(c, k) ==
    IF k \in Keys(c) THEN <<c[IndexOf(c, k)]>> \o Without(c, k) ELSE c

\* Variants of put: one that keeps the value of a present key, one that never
\* evicts, one that evicts the most recently used entry.
LruPut_KeepOld(c, k, v) ==
    IF k \in Keys(c) THEN <<c[IndexOf(c, k)]>> \o Without(c, k)
    ELSE IF Len(c) >= Capacity
         THEN <<[k |-> k, v |-> v]>> \o SubSeq(c, 1, Capacity - 1)
         ELSE <<[k |-> k, v |-> v]>> \o c
LruPut_NoEvict(c, k, v) ==
    IF k \in Keys(c) THEN <<[k |-> k, v |-> v]>> \o Without(c, k)
    ELSE <<[k |-> k, v |-> v]>> \o c
LruPut_EvictFront(c, k, v) ==
    IF k \in Keys(c) THEN <<[k |-> k, v |-> v]>> \o Without(c, k)
    ELSE IF Len(c) >= Capacity
         THEN <<[k |-> k, v |-> v]>> \o SubSeq(c, 2, Capacity)
         ELSE <<[k |-> k, v |-> v]>> \o c

\* Variant of put that makes room before it looks for the key.
LruPut_EvictOnReplace(c, k, v) ==
    IF Len(c) >= Capacity
    THEN <<[k |-> k, v |-> v]>> \o Without(SubSeq(c, 1, Capacity - 1), k)
    ELSE <<[k |-> k, v |-> v]>> \o Without(c, k)

\* put(k, v): replaces the value of a present key, else inserts, evicting the
\* least recently used entry when the cache is full; the entry goes to the front.
LruPut(c, k, v) ==
    IF k \in Keys(c) THEN <<[k |-> k, v |-> v]>> \o Without(c, k)
    ELSE IF Len(c) >= Capacity
         THEN <<[k |-> k, v |-> v]>> \o SubSeq(c, 1, Capacity - 1)
         ELSE <<[k |-> k, v |-> v]>> \o c

\* ------------------------------------------------------------ history
Touch(u, k) == <<k>> \o SelectSeq(u, LAMBDA x : x # k)
Invoked(t) == pc[t] = "await_f" \/ fres[t] # None
Returned(u, k) ==
    {b \in Bytes : pc[u] = "done" /\ persist[u] /\ key[u] = k /\ ret[u] = Ok(b)}

\* --------------------------------------------------------------- Init
Init ==
    /\ cache = <<>>
    /\ locked = FALSE
    /\ guard = [t \in Tasks |-> FALSE]
    /\ pc = [t \in Tasks |-> "idle"]
    /\ sql = [t \in Tasks |-> <<>>]
    /\ command = [t \in Tasks |-> <<>>]
    /\ persist = [t \in Tasks |-> FALSE]
    /\ key = [t \in Tasks |-> NoKey]
    /\ cached = [t \in Tasks |-> None]
    /\ fres = [t \in Tasks |-> None]
    /\ result = [t \in Tasks |-> None]
    /\ ret = [t \in Tasks |-> None]
    /\ traced = [t \in Tasks |-> 0]
    /\ calls = 0
    /\ promised = [t \in Tasks |-> {}]
    /\ onEmpty = [t \in Tasks |-> FALSE]
    /\ lastPut = NoTask
    /\ used = <<>>

\* ----------------------------------------------------------- retrieve
\* The call and line 23: let key = get_key(sql, command).
Call(t, s, c, p) ==
    /\ pc[t] \in {"idle", "done"}
    /\ calls < MaxCalls
    /\ calls' = calls + 1
    /\ sql' = [sql EXCEPT ![t] = s]
    /\ command' = [command EXCEPT ![t] = c]
    /\ persist' = [persist EXCEPT ![t] = p]
    /\ key' = [key EXCEPT ![t] = get_key(s, c)]
    /\ cached' = [cached EXCEPT ![t] = None]
    /\ fres' = [fres EXCEPT ![t] = None]
    /\ result' = [result EXCEPT ![t] = None]
    /\ ret' = [ret EXCEPT ![t] = None]
    /\ traced' = [traced EXCEPT ![t] = 0]
    /\ promised' = [promised EXCEPT ![t] =
                        UNION {Returned(u, get_key(s, c)) : u \in Tasks}]
    /\ onEmpty' = [onEmpty EXCEPT ![t] = (cache = <<>>)]
    /\ lastPut' = IF lastPut = t THEN NoTask ELSE lastPut
    /\ pc' = [pc EXCEPT ![t] = "lockProbe"]
    /\ UNCHANGED <<cache, locked, guard, used>>

\* Line 25: cache.lock().await completes once the mutex is free.
AcquireProbe(t) ==
    /\ pc[t] = "lockProbe"
    /\ ~locked
    /\ locked' = TRUE
    /\ guard' = [guard EXCEPT ![t] = TRUE]
    /\ pc' = [pc EXCEPT ![t] = "probe"]
    /\ UNCHANGED <<cache, sql, command, persist, key, cached, fres, result, ret,
                   traced, calls, promised, onEmpty, lastPut, used>>

\* Variants of the probe: one that never returns early, one that drops the
\* guard as soon as the entry is found.
Probe_NoShortCircuit(t) ==
    /\ pc[t] = "probe"
    /\ cached' = [cached EXCEPT ![t] = LruGetValue(cache, key[t])]
    /\ cache' = LruGetCache(cache, key[t])
    /\ used' = IF key[t] \in Keys(cache) THEN Touch(used, key[t]) ELSE used
    /\ pc' = [pc EXCEPT ![t] = "miss"]
    /\ UNCHANGED <<locked, guard, sql, command, persist, key, fres, result, ret,
                   traced, calls, promised, onEmpty, lastPut>>
Probe_DropGuard(t) ==
    /\ pc[t] = "probe"
    /\ cached' = [cached EXCEPT ![t] = LruGetValue(cache, key[t])]
    /\ cache' = LruGetCache(cache, key[t])
    /\ used' = IF key[t] \in Keys(cache) THEN Touch(used, key[t]) ELSE used
    /\ pc' = [pc EXCEPT ![t] =
                 IF LruGetValue(cache, key[t]) # None THEN "hit" ELSE "miss"]
    /\ locked' = (locked /\ LruGetValue(cache, key[t]) = None)
    /\ guard' = [guard EXCEPT ![t] = LruGetValue(cache, key[t]) = None]
    /\ UNCHANGED <<sql, command, persist, key, fres, result, ret,
                   traced, calls, promised, onEmpty, lastPut>>

\* Line 25: .get(&key) and the match against Some(cached).
Probe(t) ==
    /\ pc[t] = "probe"
    /\ cached' = [cached EXCEPT ![t] = LruGetValue(cache, key[t])]
    /\ cache' = LruGetCache(cache, key[t])
    /\ used' = IF key[t] \in Keys(cache) THEN Touch(used, key[t]) ELSE used
    /\ pc' = [pc EXCEPT ![t] =
                 IF LruGetValue(cache, key[t]) # None THEN "hit" ELSE "miss"]
    /\ UNCHANGED <<locked, guard, sql, command, persist, key, fres, result, ret,
                   traced, calls, promised, onEmpty, lastPut>>

\* Line 26: tracing::debug!("Cache hit {}!", key), the guard still alive.
TraceHit(t) ==
    /\ pc[t] = "hit"
    /\ traced' = [traced EXCEPT ![t] = traced[t] + 1]
    /\ pc' = [pc EXCEPT ![t] = "traced"]
    /\ UNCHANGED <<cache, locked, guard, sql, command, persist, key, cached, fres,
                   result, ret, calls, promised, onEmpty, lastPut, used>>

\* Line 27: return Ok(cached.clone()); the guard, a temporary of the if-let
\* scrutinee that `cached` borrows from, is dropped as the function returns.
ReturnHit(t) ==
    /\ pc[t] = "traced"
    /\ ret' = [ret EXCEPT ![t] = Ok(cached[t][2])]
    /\ locked' = FALSE
    /\ guard' = [guard EXCEPT ![t] = FALSE]
    /\ pc' = [pc EXCEPT ![t] = "done"]
    /\ UNCHANGED <<cache, sql, command, persist, key, cached, fres, result,
                   traced, calls, promised, onEmpty, lastPut, used>>

\* Variant of the miss path that keeps the guard alive past the if-let.
ReleaseMiss_KeepGuard(t) ==
    /\ pc[t] = "miss"
    /\ pc' = [pc EXCEPT ![t] = "call_f"]
    /\ UNCHANGED <<cache, locked, guard, sql, command, persist, key, cached, fres,
                   result, ret, traced, calls, promised, onEmpty, lastPut, used>>

\* Line 28: the pattern did not match; the guard is dropped at the end of the
\* if-let statement.
ReleaseMiss(t) ==
    /\ pc[t] = "miss"
    /\ locked' = FALSE
    /\ guard' = [guard EXCEPT ![t] = FALSE]
    /\ pc' = [pc EXCEPT ![t] = "call_f"]
    /\ UNCHANGED <<cache, sql, command, persist, key, cached, fres, result, ret,
                   traced, calls, promised, onEmpty, lastPut, used>>

\* Variant of the call of f that first reserves the key in the store.
InvokeCompute_Reserve(t) ==
    /\ pc[t] = "call_f"
    /\ cache' = LruPut(cache, key[t], "B1")
    /\ used' = Touch(used, key[t])
    /\ lastPut' = t
    /\ pc' = [pc EXCEPT ![t] = "await_f"]
    /\ UNCHANGED <<locked, guard, sql, command, persist, key, cached, fres,
                   result, ret, traced, calls, promised, onEmpty>>

\* Line 30: f() is called and its future awaited.
InvokeCompute(t) ==
    /\ pc[t] = "call_f"
    /\ pc' = [pc EXCEPT ![t] = "await_f"]
    /\ UNCHANGED <<cache, locked, guard, sql, command, persist, key, cached, fres,
                   result, ret, traced, calls, promised, onEmpty, lastPut, used>>

\* Line 30: the future completes with Ok(bytes) or Err(error).
ComputeDone(t, r) ==
    /\ pc[t] = "await_f"
    /\ fres' = [fres EXCEPT ![t] = r]
    /\ pc' = [pc EXCEPT ![t] = "try"]
    /\ UNCHANGED <<cache, locked, guard, sql, command, persist, key, cached,
                   result, ret, traced, calls, promised, onEmpty, lastPut, used>>

\* Variants of the ? and the persist test: one that replaces the error by a
\* fixed one, one that writes back whatever the persist flag.
Try_WrapErr(t) ==
    /\ pc[t] = "try"
    /\ IF fres[t][1] = "Err"
       THEN /\ ret' = [ret EXCEPT ![t] = Err("E1")]
            /\ pc' = [pc EXCEPT ![t] = "done"]
            /\ UNCHANGED result
       ELSE /\ result' = [result EXCEPT ![t] = Some(fres[t][2])]
            /\ pc' = [pc EXCEPT ![t] = IF persist[t] THEN "lockPut" ELSE "ret"]
            /\ UNCHANGED ret
    /\ UNCHANGED <<cache, locked, guard, sql, command, persist, key, cached, fres,
                   traced, calls, promised, onEmpty, lastPut, used>>
Try_IgnorePersist(t) ==
    /\ pc[t] = "try"
    /\ IF fres[t][1] = "Err"
       THEN /\ ret' = [ret EXCEPT ![t] = fres[t]]
            /\ pc' = [pc EXCEPT ![t] = "done"]
            /\ UNCHANGED result
       ELSE /\ result' = [result EXCEPT ![t] = Some(fres[t][2])]
            /\ pc' = [pc EXCEPT ![t] = "lockPut"]
            /\ UNCHANGED ret
    /\ UNCHANGED <<cache, locked, guard, sql, command, persist, key, cached, fres,
                   traced, calls, promised, onEmpty, lastPut, used>>

\* Variant of the ? that swallows the error and goes on with its payload.
Try_SwallowErr(t) ==
    /\ pc[t] = "try"
    /\ result' = [result EXCEPT ![t] = Some(fres[t][2])]
    /\ pc' = [pc EXCEPT ![t] = IF persist[t] THEN "lockPut" ELSE "ret"]
    /\ UNCHANGED <<cache, locked, guard, sql, command, persist, key, cached, fres,
                   ret, traced, calls, promised, onEmpty, lastPut, used>>

\* Line 30: the ? operator: an Err returns at once, an Ok is unwrapped into
\* `result`; line 32: if persist.
Try(t) ==
    /\ pc[t] = "try"
    /\ IF fres[t][1] = "Err"
       THEN /\ ret' = [ret EXCEPT ![t] = fres[t]]
            /\ pc' = [pc EXCEPT ![t] = "done"]
            /\ UNCHANGED result
       ELSE /\ result' = [result EXCEPT ![t] = Some(fres[t][2])]
            /\ pc' = [pc EXCEPT ![t] = IF persist[t] THEN "lockPut" ELSE "ret"]
            /\ UNCHANGED ret
    /\ UNCHANGED <<cache, locked, guard, sql, command, persist, key, cached, fres,
                   traced, calls, promised, onEmpty, lastPut, used>>

\* Variant of the second lock() that does not wait for the mutex to be free.
AcquirePut_NoWait(t) ==
    /\ pc[t] = "lockPut"
    /\ locked' = TRUE
    /\ guard' = [guard EXCEPT ![t] = TRUE]
    /\ pc' = [pc EXCEPT ![t] = "put"]
    /\ UNCHANGED <<cache, sql, command, persist, key, cached, fres, result, ret,
                   traced, calls, promised, onEmpty, lastPut, used>>

\* Line 33: cache.lock().await completes once the mutex is free.
AcquirePut(t) ==
    /\ pc[t] = "lockPut"
    /\ ~locked
    /\ locked' = TRUE
    /\ guard' = [guard EXCEPT ![t] = TRUE]
    /\ pc' = [pc EXCEPT ![t] = "put"]
    /\ UNCHANGED <<cache, sql, command, persist, key, cached, fres, result, ret,
                   traced, calls, promised, onEmpty, lastPut, used>>

\* Line 33: .put(key, result.clone()).
Put(t) ==
    /\ pc[t] = "put"
    /\ cache' = LruPut(cache, key[t], result[t][2])
    /\ used' = Touch(used, key[t])
    /\ lastPut' = t
    /\ pc' = [pc EXCEPT ![t] = "unlockPut"]
    /\ UNCHANGED <<locked, guard, sql, command, persist, key, cached, fres,
                   result, ret, traced, calls, promised, onEmpty>>

\* Line 33: the guard, a temporary of the statement, is dropped at its end.
ReleasePut(t) ==
    /\ pc[t] = "unlockPut"
    /\ locked' = FALSE
    /\ guard' = [guard EXCEPT ![t] = FALSE]
    /\ pc' = [pc EXCEPT ![t] = "ret"]
    /\ UNCHANGED <<cache, sql, command, persist, key, cached, fres, result, ret,
                   traced, calls, promised, onEmpty, lastPut, used>>

\* Variant of the final return that answers with what the store holds.
ReturnOk_ReadBack(t) ==
    /\ pc[t] = "ret"
    /\ ret' = [ret EXCEPT ![t] =
                  IF key[t] \in Keys(cache) THEN Ok(Peek(cache, key[t])[2])
                  ELSE Ok(result[t][2])]
    /\ pc' = [pc EXCEPT ![t] = "done"]
    /\ UNCHANGED <<cache, locked, guard, sql, command, persist, key, cached, fres,
                   result, traced, calls, promised, onEmpty, lastPut, used>>

\* Line 36: Ok(result).
ReturnOk(t) ==
    /\ pc[t] = "ret"
    /\ ret' = [ret EXCEPT ![t] = Ok(result[t][2])]
    /\ pc' = [pc EXCEPT ![t] = "done"]
    /\ UNCHANGED <<cache, locked, guard, sql, command, persist, key, cached, fres,
                   result, traced, calls, promised, onEmpty, lastPut, used>>

Next ==
    \/ \E t \in Tasks, s \in Sqls, c \in Commands, p \in BOOLEAN : Call(t, s, c, p)
    \/ \E t \in Tasks : AcquireProbe(t)
    \/ \E t \in Tasks : Probe(t)
    \/ \E t \in Tasks : TraceHit(t)
    \/ \E t \in Tasks : ReturnHit(t)
    \/ \E t \in Tasks : ReleaseMiss(t)
    \/ \E t \in Tasks : InvokeCompute(t)
    \/ \E t \in Tasks, b \in Bytes : ComputeDone(t, Ok(b))
    \/ \E t \in Tasks, e \in Errors : ComputeDone(t, Err(e))
    \/ \E t \in Tasks : Try(t)
    \/ \E t \in Tasks : AcquirePut(t)
    \/ \E t \in Tasks : Put(t)
    \/ \E t \in Tasks : ReleasePut(t)
    \/ \E t \in Tasks : ReturnOk(t)

Spec == Init /\ [][Next]_vars

\* Scheduling: a task that can run is run; the mutex is fair, so a task waiting
\* in lock().await gets the lock if it is free again and again; nothing makes
\* a caller call, nor the compute function complete.
Run(t) ==
    \/ Probe(t) \/ TraceHit(t) \/ ReturnHit(t) \/ ReleaseMiss(t)
    \/ InvokeCompute(t) \/ Try(t) \/ Put(t) \/ ReleasePut(t) \/ ReturnOk(t)
Lock(t) == AcquireProbe(t) \/ AcquirePut(t)
Fairness == \A t \in Tasks : WF_vars(Run(t)) /\ SF_vars(Lock(t))

LiveNext == Next /\ calls' <= LiveCalls

LiveSpec == Init /\ [][LiveNext]_vars /\ Fairness

\* The task framework drops the future of retrieve at one of its suspension
\* points: the lock().await of line 25, the f().await of line 30, the
\* lock().await of line 33.  Dropping the future drops whatever it holds.
SuspensionPoints == {"lockProbe", "await_f", "lockPut"}
Cancel(t) ==
    /\ pc[t] \in SuspensionPoints
    /\ pc' = [pc EXCEPT ![t] = "cancelled"]
    /\ guard' = [guard EXCEPT ![t] = FALSE]
    /\ locked' = IF guard[t] THEN FALSE ELSE locked
    /\ UNCHANGED <<cache, sql, command, persist, key, cached, fres, result, ret,
                   traced, calls, promised, onEmpty, lastPut, used>>

NextCancel ==
    \/ Next
    \/ \E t \in Tasks : Cancel(t)

SpecCancel == Init /\ [][NextCancel]_vars

\* ------------------------------------------------------------- claims
HoldsGuard == {t \in Tasks : guard[t]}
KeySeq(c) == [i \in 1..Len(c) |-> c[i].k]
Min(a, b) == IF a <= b THEN a ELSE b
ComputePhase == {"call_f", "await_f", "try"}

\* C1 as stated: once a persisted retrieve of a key has returned bytes B, every
\* later retrieve of that key returns B and never invokes its compute function.
C1_AsStated ==
    \A t \in Tasks : \A b \in promised[t] :
        /\ ~Invoked(t)
        /\ pc[t] = "done" => ret[t] = Ok(b)

\* C1 amended: once a persisted retrieve of a key has returned bytes B, a later
\* retrieve of that key whose probe still finds B stored under the key returns B
\* and never invokes its compute function, whatever its persist flag.
C1_HitShortCircuit ==
    \A t \in Tasks : \A b \in promised[t] :
        cached[t] = Some(b) =>
            /\ ~Invoked(t)
            /\ pc[t] \in {"hit", "traced", "done"}
            /\ pc[t] = "done" => ret[t] = Ok(b)

C1_Witness ==
    \E t \in Tasks : \E b \in promised[t] :
        /\ pc[t] = "done" /\ ~persist[t]
        /\ cached[t] = Some(b) /\ ret[t] = Ok(b) /\ fres[t] = None

\* C2 as stated: a persisted retrieve called on an empty store whose compute
\* yields B has returned B and the store maps its key to B once it has returned.
C2_AsStated ==
    \A t \in Tasks : \A b \in Bytes :
        (onEmpty[t] /\ persist[t] /\ fres[t] = Ok(b) /\ pc[t] = "done") =>
            /\ ret[t] = Ok(b)
            /\ Peek(cache, key[t]) = Some(b)

\* C2 amended: a persisted retrieve whose compute yields B returns B, and the
\* store maps its key to B from its write-back until another retrieve writes
\* back (which may be before the call returns).
C2_MissAndPopulate ==
    \A t \in Tasks : \A b \in Bytes :
        (persist[t] /\ fres[t] = Ok(b)) =>
            /\ pc[t] = "done" => ret[t] = Ok(b)
            /\ pc[t] \in {"unlockPut", "ret", "done"} /\ lastPut = t =>
                   Peek(cache, key[t]) = Some(b)
            /\ pc[t] = "unlockPut" => lastPut = t

C2_Witness ==
    \E t \in Tasks : \E b \in Bytes :
        /\ onEmpty[t] /\ persist[t] /\ fres[t] = Ok(b) /\ pc[t] = "done"
        /\ ret[t] = Ok(b) /\ lastPut = t
        /\ cache = <<[k |-> key[t], v |-> b]>>

\* A call whose compute failed: its probe missed, it holds no result, it has
\* not put, and once done it has returned the output of compute as it is.
C3_FailedCall ==
    \A t \in Tasks : fres[t][1] = "Err" =>
        /\ pc[t] \in {"try", "done"}
        /\ cached[t] = None /\ result[t] = None /\ lastPut # t
        /\ pc[t] = "done" => ret[t] = fres[t]
\* A step of a task that changes the store is a probe that hits or the put of a
\* call whose compute succeeded.
C3_StoreStep ==
    \A t \in Tasks : (pc'[t] # pc[t] /\ cache' # cache) =>
        \/ pc[t] = "probe" /\ cached'[t] # None /\ fres[t] = None
        \/ pc[t] = "put" /\ fres[t][1] = "Ok"
\* C3: a retrieve whose compute failed returns that very failure, and the call
\* leaves the store untouched: the store changes only in a probe that hits or in
\* the put of a call whose compute succeeded, and a failed call does neither.
C3_FailurePropagation == []C3_FailedCall /\ [][C3_StoreStep]_vars

C3_Witness ==
    \E t \in Tasks :
        /\ pc[t] = "done" /\ persist[t] /\ ret[t] = Err("E2")
        /\ key[t] \notin Keys(cache) /\ cache # <<>>

\* C4 as stated: a retrieve with persist=false has returned the result of its
\* compute function and its key is absent from the store afterward.
C4_AsStated ==
    \A t \in Tasks : (pc[t] = "done" /\ ~persist[t]) =>
        /\ ret[t] = fres[t]
        /\ key[t] \notin Keys(cache)

\* A call with persist=false never reaches the write-back, and on a miss it
\* returns the output of compute.
C4_NeverPuts ==
    \A t \in Tasks : ~persist[t] =>
        /\ pc[t] \notin {"lockPut", "put", "unlockPut"}
        /\ lastPut # t
        /\ (pc[t] = "done" /\ cached[t] = None) => ret[t] = fres[t]
\* A key that enters the store is put by a call with persist=true.
C4_KeyEnters ==
    \A k \in Keys(cache') \ Keys(cache) :
        \E t \in Tasks : pc[t] = "put" /\ pc'[t] = "unlockPut" /\ persist[t] /\ key[t] = k
\* C4 amended: a retrieve with persist=false whose probe misses returns the
\* result of its compute function and never writes back; a key enters the store
\* only by the put of a retrieve with persist=true.
C4_NoPersistPath == []C4_NeverPuts /\ [][C4_KeyEnters]_vars

C4_Witness ==
    \E t \in Tasks : \E b \in Bytes :
        /\ pc[t] = "done" /\ ~persist[t] /\ fres[t] = Ok(b) /\ ret[t] = Ok(b)
        /\ key[t] \notin Keys(cache) /\ cache # <<>>

\* C5: a task that is about to invoke compute, awaits it or has just got its
\* output holds no guard of the store lock; the guard of the probe is dropped
\* before compute and a guard is held again only for the write-back.
C5_ComputeOutsideLock ==
    \A t \in Tasks :
        /\ pc[t] \in ComputePhase \cup {"lockPut", "ret"} => ~guard[t]
        /\ guard[t] => pc[t] \in {"probe", "hit", "traced", "miss", "put", "unlockPut"}
        /\ (pc[t] \in ComputePhase /\ locked) => \E u \in Tasks \ {t} : guard[u]

C5_Witness ==
    \E t \in Tasks : \E u \in Tasks \ {t} :
        pc[t] = "await_f" /\ ~guard[t] /\ guard[u] /\ pc[u] = "put"

\* C6: a task about to read (get) or write (put) the store, or holding the
\* reference a hit returned, holds a guard, and at most one task holds a guard.
C6_MutualExclusion ==
    /\ Cardinality(HoldsGuard) <= 1
    /\ locked <=> HoldsGuard # {}
    /\ \A t \in Tasks : pc[t] \in {"probe", "hit", "traced", "put"} => guard[t]

C6_Witness ==
    \E t \in Tasks : \E u \in Tasks \ {t} :
        pc[t] = "put" /\ guard[t] /\ pc[u] = "lockPut" /\ key[u] = key[t]

\* C7: two retrieves of one key can both be awaiting their compute functions
\* (the witness); whenever they are, both probes missed and neither task holds
\* the lock, which was released after the miss probe.
C7_BothMissed ==
    \A t \in Tasks : \A u \in Tasks \ {t} :
        (key[t] = key[u] /\ Invoked(t) /\ Invoked(u)) =>
            /\ cached[t] = None /\ cached[u] = None
            /\ (pc[t] = "await_f" /\ pc[u] = "await_f") => (~guard[t] /\ ~guard[u])

C7_Witness ==
    \E t \in Tasks : \E u \in Tasks \ {t} :
        /\ key[t] = key[u] /\ sql[t] = sql[u] /\ command[t] = command[u]
        /\ pc[t] = "await_f" /\ pc[u] = "await_f"
        /\ cached[t] = None /\ cached[u] = None

\* C8 as stated: on a hit the lock is released before the trace event is emitted
\* and before the copy is returned.
C8_AsStated ==
    \A t \in Tasks : pc[t] \in {"hit", "traced"} => ~guard[t]

\* C8 amended: on a hit, retrieve emits the trace event and then copies the
\* stored bytes while it still holds the store lock, and releases the lock as it
\* returns the copy.
C8_HitOrdering ==
    \A t \in Tasks :
        /\ pc[t] = "hit" => guard[t] /\ traced[t] = 0 /\ cached[t] = Peek(cache, key[t])
        /\ pc[t] = "traced" => guard[t] /\ traced[t] = 1 /\ cached[t] = Peek(cache, key[t])
        /\ (pc[t] = "done" /\ cached[t] # None) =>
               ~guard[t] /\ traced[t] = 1 /\ ret[t] = Ok(cached[t][2])
        /\ traced[t] > 0 => cached[t] # None

C8_Witness ==
    \E t \in Tasks : \E u \in Tasks \ {t} :
        pc[t] = "traced" /\ guard[t] /\ traced[t] = 1 /\ pc[u] = "lockProbe"

\* C9: the store never holds more entries than its capacity, and no key twice.
C9_CapacityInvariant ==
    /\ Len(cache) <= Capacity
    /\ Cardinality(Keys(cache)) = Len(cache)

C9_Witness ==
    /\ Len(cache) = Capacity
    /\ Len(used) > Capacity
    /\ lastPut # NoTask

\* C10: the store holds the keys most recently accessed by retrieves (by a hit
\* or a write-back), in that order, so the key an insert evicts is the least
\* recently retrieved one; and no retrieve hits on a key that is not stored.
C10_Eviction ==
    /\ KeySeq(cache) = SubSeq(used, 1, Min(Len(used), Capacity))
    /\ \A t \in Tasks : pc[t] \in {"hit", "traced"} => key[t] \in Keys(cache)
    /\ \A t \in Tasks : (pc[t] = "miss" \/ Invoked(t)) => cached[t] = None

C10_Witness ==
    \E t \in Tasks :
        /\ Len(used) > Capacity /\ Len(cache) = Capacity
        /\ key[t] = used[Len(used)] /\ key[t] \notin Keys(cache)
        /\ promised[t] # {} /\ pc[t] = "await_f"

\* C11: a retrieve that has returned has returned an error exactly when its
\* probe missed and its compute function failed, and then that error; a hit
\* returns Ok, and no call has an error before its compute has produced one.
C11_SingleErrorChannel ==
    \A t \in Tasks :
        /\ pc[t] = "done" =>
               /\ ret[t][1] \in {"Ok", "Err"}
               /\ ret[t][1] = "Err" <=> (cached[t] = None /\ fres[t][1] = "Err")
               /\ cached[t] # None => ret[t][1] = "Ok"
        /\ ret[t][1] = "Err" => (pc[t] = "done" /\ ret[t] = fres[t])
        /\ pc[t] # "done" => ret[t] = None

C11_Witness ==
    \E t \in Tasks : \E u \in Tasks \ {t} :
        /\ pc[t] = "done" /\ ret[t] = Err("E1") /\ cached[t] = None
        /\ pc[u] = "done" /\ ret[u][1] = "Ok" /\ cached[u] # None

\* A call that stands at a suspension point, or was cancelled at one, holds no
\* guard, has a missed probe or none, has not put and has returned nothing; a
\* call reaches its put only with the Ok output of its compute function.
C12_Suspended ==
    \A t \in Tasks :
        /\ pc[t] \in SuspensionPoints \cup {"cancelled"} =>
               ~guard[t] /\ cached[t] = None /\ lastPut # t /\ ret[t] = None
        /\ pc[t] \in {"put", "unlockPut"} =>
               fres[t][1] = "Ok" /\ result[t] = Some(fres[t][2])
\* A step of a call that changes the store is a probe that hits or a put after
\* a successful compute; neither leads to a suspension point.
C12_WriteStep ==
    \A t \in Tasks : (pc'[t] # pc[t] /\ cache' # cache) =>
        /\ pc'[t] \in {"hit", "unlockPut"}
        /\ pc'[t] = "unlockPut" => fres[t][1] = "Ok"
\* C12: a retrieve cancelled at a suspension point (awaiting the lock for the
\* probe, awaiting compute, awaiting the lock for the write-back) has changed
\* nothing in the store and holds no lock, and a retrieve writes the store only
\* after its compute has succeeded.
C12_CancellationNoPartialState == []C12_Suspended /\ [][C12_WriteStep]_vars

C12_Witness ==
    \E t \in Tasks : \E u \in Tasks \ {t} :
        /\ pc[t] = "cancelled" /\ persist[t] /\ fres[t][1] = "Ok"
        /\ key[t] \notin Keys(cache)
        /\ pc[u] = "cancelled" /\ fres[u] = None /\ cache # <<>>

Called(t) == pc[t] # "idle"
DigestPart(k) == k[1]

\* C13: two requests that differ in sql or in command get different keys, also
\* when sql followed by command is the same byte string for both (the digest
\* being collision-free on byte strings).
C13_KeySensitivity ==
    \A t \in Tasks : \A u \in Tasks \ {t} :
        (Called(t) /\ Called(u) /\ (sql[t] # sql[u] \/ command[t] # command[u])) =>
            key[t] # key[u]

C13_Witness ==
    \E t \in Tasks : \E u \in Tasks \ {t} :
        /\ Called(t) /\ Called(u)
        /\ sql[t] # sql[u] /\ sql[t] \o command[t] = sql[u] \o command[u]
        /\ DigestPart(key[t]) = DigestPart(key[u])
        /\ key[t] # key[u]

\* C14 as stated: two requests share a cache key exactly when the digest parts
\* of their keys are equal.
C14_AsStated ==
    \A t \in Tasks : \A u \in Tasks \ {t} :
        (Called(t) /\ Called(u)) =>
            (key[t] = key[u] <=> DigestPart(key[t]) = DigestPart(key[u]))

\* C14 amended: two requests share a cache key exactly when the digest parts of
\* their keys are equal and their commands are equal; requests whose sql
\* followed by command is the same byte string have equal digest parts and are
\* kept apart by the suffix alone.
C14_SuffixSeparates ==
    \A t \in Tasks : \A u \in Tasks \ {t} :
        (Called(t) /\ Called(u)) =>
            (key[t] = key[u] <=>
                (DigestPart(key[t]) = DigestPart(key[u]) /\ command[t] = command[u]))

C14_Witness ==
    \E t \in Tasks : \E u \in Tasks \ {t} :
        /\ DigestPart(key[t]) = DigestPart(key[u]) /\ command[t] # command[u]
        /\ pc[t] = "done" /\ persist[t] /\ ret[t][1] = "Ok" /\ key[t] \in Keys(cache)
        /\ pc[u] = "await_f" /\ cached[u] = None /\ key[u] \notin Keys(cache)

\* C15: a retrieve whose probe missed and whose compute succeeded carries and
\* returns exactly its own compute result, for persist true or false, whatever
\* the store holds under its key by then; two retrieves of one key can return
\* different bytes (the witness).
C15_OwnBytes ==
    \A t \in Tasks : (cached[t] = None /\ fres[t][1] = "Ok") =>
        /\ pc[t] \in {"try", "lockPut", "put", "unlockPut", "ret", "done", "cancelled"}
        /\ pc[t] \notin {"try", "cancelled"} => result[t] = Some(fres[t][2])
        /\ pc[t] = "done" => ret[t] = fres[t]

C15_Witness ==
    \E t \in Tasks : \E u \in Tasks \ {t} :
        /\ key[t] = key[u] /\ pc[t] = "done" /\ pc[u] = "done"
        /\ cached[t] = None /\ cached[u] = None
        /\ persist[t] /\ ~persist[u]
        /\ ret[t] = Ok("B1") /\ ret[u] = Ok("B2")
        /\ Peek(cache, key[u]) = Some("B1")

PutStep(t) == pc[t] = "put" /\ pc'[t] = "unlockPut"

\* A put leaves its key in one entry holding the bytes of the putting call, and
\* a put of a key already stored keeps every other entry.
C16_PutReplaces ==
    \A t \in Tasks : PutStep(t) =>
        /\ Peek(cache', key[t]) = Some(result[t][2])
        /\ Cardinality({i \in 1..Len(cache') : cache'[i].k = key[t]}) = 1
        /\ key[t] \in Keys(cache) =>
               /\ Keys(cache') = Keys(cache)
               /\ \A k \in Keys(cache) \ {key[t]} : Peek(cache', k) = Peek(cache, k)
\* The bytes stored under a key change only by a put of that key.
C16_ValueChanges ==
    \A k \in Keys(cache) \cap Keys(cache') :
        Peek(cache', k) # Peek(cache, k) => \E t \in Tasks : PutStep(t) /\ key[t] = k
\* C16: write-backs under one key leave a single entry whose value is that of
\* the write-back that took the lock last, and a write-back of a key already
\* stored evicts no other key, also when the store is at its capacity.
C16_LastWriterWins == [][C16_PutReplaces /\ C16_ValueChanges]_vars

C16_Witness ==
    \E t \in Tasks : \E u \in Tasks \ {t} :
        /\ key[t] = key[u] /\ persist[t] /\ persist[u]
        /\ cached[t] = None /\ cached[u] = None
        /\ fres[u] = Ok("B1") /\ fres[t] = Ok("B2")
        /\ pc[u] \in {"ret", "done"} /\ pc[t] \in {"unlockPut", "ret", "done"}
        /\ lastPut = t
        /\ Len(cache) = Capacity /\ Len(cache) >= 2
        /\ cache[1] = [k |-> key[t], v |-> "B2"]

HitStep(t) == pc[t] = "probe" /\ pc'[t] = "hit"

\* A probe that hits makes its key the most recently used entry and changes
\* neither the keys nor the bytes stored.
C17_HitPromotes ==
    \A t \in Tasks : HitStep(t) =>
        /\ cache'[1].k = key[t] /\ used'[1] = key[t]
        /\ cached'[t] = Peek(cache, key[t])
        /\ Keys(cache') = Keys(cache)
        /\ \A k \in Keys(cache) : Peek(cache', k) = Peek(cache, k)
\* With a capacity of at least 2, the insert of a new key keeps the entry that
\* was the most recently used one.
C17_InsertKeepsLatest ==
    \A t \in Tasks :
        (PutStep(t) /\ key[t] \notin Keys(cache) /\ cache # <<>> /\ Capacity >= 2) =>
            /\ cache[1].k \in Keys(cache')
            /\ Peek(cache', cache[1].k) = Some(cache[1].v)
C18_AwaitsCompute ==
    \A t \in Tasks : (pc[t] = "await_f" /\ pc'[t] # "await_f") =>
        (pc'[t] = "try" /\ fres'[t] # None /\ ret'[t] = None)
\* C18: with a fair lock and no cancellation, every retrieve that is called
\* returns or comes to await its compute function, and returns once its compute
\* function has completed, whatever the other retrieves do, also when some of
\* them await a compute function that never completes; a retrieve whose
\* compute function does not complete does not return.
C18_Termination ==
    /\ \A t \in Tasks : (pc[t] = "lockProbe") ~> (pc[t] \in {"done", "await_f"})
    /\ \A t \in Tasks : (pc[t] = "try") ~> (pc[t] = "done")
    /\ \A t \in Tasks : (pc[t] = "hit") ~> (pc[t] = "done")
    /\ [][C18_AwaitsCompute]_vars

C18_Witness ==
    \E t \in Tasks : \E u \in Tasks \ {t} :
        /\ pc[t] = "await_f" /\ key[u] = key[t]
        /\ pc[u] = "done" /\ persist[u] /\ cached[u] = None /\ ret[u][1] = "Ok"
        /\ lastPut = u /\ ~locked

Entries(c) == {<<c[i].k, c[i].v>> : i \in 1..Len(c)}

\* Every entry holds bytes under the key of some request.
C19_WellFormed ==
    \A i \in 1..Len(cache) :
        /\ cache[i].v \in Bytes
        /\ \E s \in Sqls, c \in Commands : cache[i].k = get_key(s, c)
\* An entry (k, v) that appears in the store is put by a call with persist=true
\* whose key is k, the key of its own request, whose probe missed and whose
\* compute function yielded v.
C19_EntryWritten ==
    \A e \in Entries(cache') \ Entries(cache) :
        \E t \in Tasks :
            /\ PutStep(t) /\ persist[t] /\ cached[t] = None
            /\ key[t] = e[1] /\ e[1] = get_key(sql[t], command[t])
            /\ fres[t] = Ok(e[2])
\* C19: starting from an empty store, every entry (k, v) of the store was
\* written back by a retrieve with persist=true and key k that missed and whose
\* compute yielded v; no value is stored under the key of another request.
C19_Provenance == []C19_WellFormed /\ [][C19_EntryWritten]_vars

C19_Witness ==
    \E t \in Tasks : \E b \in Bytes :
        /\ lastPut = t /\ persist[t] /\ cached[t] = None /\ fres[t] = Ok(b)
        /\ Len(cache) = Capacity /\ Len(used) > Capacity
        /\ cache[1] = [k |-> get_key(sql[t], command[t]), v |-> b]

\* C20: a step of a retrieve with persist=false leaves the key-to-value mapping
\* of the store as it is, hit or miss, compute succeeding or failing; it changes
\* the store at all only in a probe that hits, and then only the recency order.
C20_NoPersistFrame ==
    [][\A t \in Tasks : (pc'[t] # pc[t] /\ ~persist'[t]) =>
            /\ Entries(cache') = Entries(cache)
            /\ Len(cache') = Len(cache)
            /\ cache' # cache => HitStep(t)]_vars

C20_Witness ==
    \E t \in Tasks : \E u \in Tasks \ {t} :
        /\ pc[t] = "done" /\ ~persist[t] /\ cached[t] # None
        /\ lastPut = u /\ pc[u] = "done" /\ key[u] # key[t]
        /\ Len(cache) = 2 /\ cache[1].k = key[t] /\ cache[2].k = key[u]
====
